---- MODULE Spec2Model ----
(***************************************************************************)
(* Model of the Bitcoin wire-format codec of src/lib.rs: CompactSize,      *)
(* OutPoint, Script, TransactionInput and BitcoinTransaction, with their   *)
(* to_bytes encoders and from_bytes decoders.                              *)
(*                                                                         *)
(* Numbers.  A byte is a number in 0..255.  A u32 is a pair and a u64 a    *)
(* quadruple of 16-bit limbs, least significant limb first, so that the    *)
(* full 64-bit range of the program is represented exactly.  usize is      *)
(* the 64-bit machine word (the same four limbs).  Lengths of buffers and  *)
(* cursors into them are small and kept as plain naturals.                 *)
(*                                                                         *)
(* Results.  A decoder returns Ok(value, consumed), Err(error), or does    *)
(* not return at all: Panic(msg) for a Rust panic (arithmetic overflow     *)
(* under overflow checks, a slice whose bounds are out of order or out of  *)
(* range, Vec capacity overflow) and Abort(msg) for a failed allocation.   *)
(***************************************************************************)
EXTENDS Integers, Sequences, FiniteSets, TLC

VARIABLES
    pc,               \* position of the caller / of the running decoder
    kind,             \* the type whose codec is exercised
    entity,           \* the value that was encoded (NoEntity for a raw buffer)
    shape,            \* how the buffer relates to to_bytes(entity)
    bytes,            \* the buffer handed to from_bytes
    encoded_len,      \* len(to_bytes(entity)) at the time of encoding
    cursor,           \* BitcoinTransaction::from_bytes: cursor
    version,          \* BitcoinTransaction::from_bytes: version
    input_count,      \* BitcoinTransaction::from_bytes: input_count.value
    inputs,           \* BitcoinTransaction::from_bytes: inputs
    input_sizes,      \* consumed count of each decoded input (history)
    slice_start,      \* offset in bytes of the slice given to TransactionInput::from_bytes
    in_cursor,        \* TransactionInput::from_bytes: cursor
    previous_output,  \* TransactionInput::from_bytes: previous_output
    script_sig,       \* TransactionInput::from_bytes: script_sig
    in_result,        \* result of the last TransactionInput::from_bytes
    result            \* result of the decoder under test

vars == <<pc, kind, entity, shape, bytes, encoded_len, cursor, version, input_count,
          inputs, input_sizes, slice_start, in_cursor, previous_output, script_sig,
          in_result, result>>

-----------------------------------------------------------------------------
(* Fixed-width integers                                                    *)

Byte == 0..255
Limb == 0..65535

\* u16::to_le_bytes
u16_to_le_bytes(l) == <<l % 256, l \div 256>>

\* u32::to_le_bytes
u32_to_le_bytes(x) == u16_to_le_bytes(x[1]) \o u16_to_le_bytes(x[2])

\* u64::to_le_bytes
u64_to_le_bytes(x) ==
    u16_to_le_bytes(x[1]) \o u16_to_le_bytes(x[2]) \o
    u16_to_le_bytes(x[3]) \o u16_to_le_bytes(x[4])

\* u16::from_le_bytes
u16_from_le_bytes(b) == b[1] + 256 * b[2]

\* mutant: the four bytes read most significant first (from_be_bytes)
u32_from_be_bytes(b) == <<b[4] + 256 * b[3], b[2] + 256 * b[1]>>

\* u32::from_le_bytes
u32_from_le_bytes(b) == <<b[1] + 256 * b[2], b[3] + 256 * b[4]>>

\* u64::from_le_bytes
u64_from_le_bytes(b) ==
    <<b[1] + 256 * b[2], b[3] + 256 * b[4], b[5] + 256 * b[6], b[7] + 256 * b[8]>>

\* `x as u64` for x: u8 or u16, for x: u32, and for a small usize (a length)
u16_as_u64(l) == <<l, 0, 0, 0>>
u32_as_u64(x) == <<x[1], x[2], 0, 0>>
usize_as_u64(n) == <<n % 65536, n \div 65536, 0, 0>>

\* `v as u8`, `v as u16`, `v as u32` for v: u64 (truncation)
u64_as_u8(v) == v[1] % 256
u64_as_u16(v) == v[1]
u64_as_u32(v) == <<v[1], v[2]>>

\* a <= b on u64
U64Le(a, b) ==
    \/ a[4] < b[4]
    \/ a[4] = b[4] /\ a[3] < b[3]
    \/ a[4] = b[4] /\ a[3] = b[3] /\ a[2] < b[2]
    \/ a[4] = b[4] /\ a[3] = b[3] /\ a[2] = b[2] /\ a[1] <= b[1]

U64Lt(a, b) == U64Le(a, b) /\ a # b

\* the range pattern lo..=hi of a match arm
U64InRange(v, lo, hi) == U64Le(lo, v) /\ U64Le(v, hi)

\* a + b on the 64-bit machine word: the wrapped sum and whether it overflowed
UsizeAdd(a, b) ==
    LET s1 == a[1] + b[1]
        s2 == a[2] + b[2] + s1 \div 65536
        s3 == a[3] + b[3] + s2 \div 65536
        s4 == a[4] + b[4] + s3 \div 65536
    IN [sum |-> <<s1 % 65536, s2 % 65536, s3 % 65536, s4 % 65536>>,
        overflow |-> s4 >= 65536]

\* a machine word known to be at most a buffer length, as a natural
UsizeSmall(a) == a[1] + 65536 * a[2]

-----------------------------------------------------------------------------
(* Results                                                                 *)

NoValue == [none |-> TRUE]
NoEntity == [none |-> TRUE]

Ok(v, n) == [tag |-> "Ok", value |-> v, consumed |-> n, error |-> "none"]
Err(e) == [tag |-> "Err", value |-> NoValue, consumed |-> 0, error |-> e]
Panic(m) == [tag |-> "Panic", value |-> NoValue, consumed |-> 0, error |-> m]
Abort(m) == [tag |-> "Abort", value |-> NoValue, consumed |-> 0, error |-> m]
NoResult == [tag |-> "None", value |-> NoValue, consumed |-> 0, error |-> "none"]

\* bytes[from..] and bytes[from..to] (Rust, 0-based, end exclusive)
SliceFrom(b, from) == SubSeq(b, from + 1, Len(b))
Slice(b, from, to) == SubSeq(b, from + 1, to)

-----------------------------------------------------------------------------
(* CompactSize                                                             *)

CompactSize_new(value) == [value |-> value]

\* mutant: the first arm written 0..=253, so that 253 is emitted as a single byte
CompactSize_to_bytes_WideFirstArm(self) ==
    IF U64InRange(self.value, <<0, 0, 0, 0>>, <<253, 0, 0, 0>>)
    THEN <<u64_as_u8(self.value)>>
    ELSE IF U64InRange(self.value, <<254, 0, 0, 0>>, <<65535, 0, 0, 0>>)
    THEN <<253>> \o u16_to_le_bytes(u64_as_u16(self.value))
    ELSE IF U64InRange(self.value, <<0, 1, 0, 0>>, <<65535, 65535, 0, 0>>)
    THEN <<254>> \o u32_to_le_bytes(u64_as_u32(self.value))
    ELSE <<255>> \o u64_to_le_bytes(self.value)

CompactSize_to_bytes(self) ==
    IF U64InRange(self.value, <<0, 0, 0, 0>>, <<252, 0, 0, 0>>)
    THEN <<u64_as_u8(self.value)>>
    ELSE IF U64InRange(self.value, <<253, 0, 0, 0>>, <<65535, 0, 0, 0>>)
    THEN <<253>> \o u16_to_le_bytes(u64_as_u16(self.value))
    ELSE IF U64InRange(self.value, <<0, 1, 0, 0>>, <<65535, 65535, 0, 0>>)
    THEN <<254>> \o u32_to_le_bytes(u64_as_u32(self.value))
    ELSE <<255>> \o u64_to_le_bytes(self.value)

\* mutant: a decoder that rejects a value stored wider than it needs
CompactSize_from_bytes_Canonical(b) ==
    IF Len(b) = 0 THEN Err("InsufficientBytes")
    ELSE IF b[1] <= 252
    THEN Ok(CompactSize_new(u16_as_u64(b[1])), 1)
    ELSE IF b[1] = 253
    THEN IF Len(b) < 3 THEN Err("InsufficientBytes")
         ELSE IF u16_from_le_bytes(<<b[2], b[3]>>) < 253 THEN Err("InvalidFormat")
         ELSE Ok(CompactSize_new(u16_as_u64(u16_from_le_bytes(<<b[2], b[3]>>))), 3)
    ELSE IF b[1] = 254
    THEN IF Len(b) < 5 THEN Err("InsufficientBytes")
         ELSE IF b[4] = 0 /\ b[5] = 0 THEN Err("InvalidFormat")
         ELSE Ok(CompactSize_new(u32_as_u64(u32_from_le_bytes(
                     <<b[2], b[3], b[4], b[5]>>))), 5)
    ELSE IF Len(b) < 9 THEN Err("InsufficientBytes")
         ELSE IF b[6] = 0 /\ b[7] = 0 /\ b[8] = 0 /\ b[9] = 0 THEN Err("InvalidFormat")
         ELSE Ok(CompactSize_new(u64_from_le_bytes(
                     <<b[2], b[3], b[4], b[5], b[6], b[7], b[8], b[9]>>)), 9)

CompactSize_from_bytes(b) ==
    IF Len(b) = 0 THEN Err("InsufficientBytes")
    ELSE IF b[1] <= 252
    THEN Ok(CompactSize_new(u16_as_u64(b[1])), 1)
    ELSE IF b[1] = 253
    THEN IF Len(b) < 3 THEN Err("InsufficientBytes")
         ELSE Ok(CompactSize_new(u16_as_u64(u16_from_le_bytes(<<b[2], b[3]>>))), 3)
    ELSE IF b[1] = 254
    THEN IF Len(b) < 5 THEN Err("InsufficientBytes")
         ELSE Ok(CompactSize_new(u32_as_u64(u32_from_le_bytes(
                     <<b[2], b[3], b[4], b[5]>>))), 5)
    ELSE IF Len(b) < 9 THEN Err("InsufficientBytes")
         ELSE Ok(CompactSize_new(u64_from_le_bytes(
                     <<b[2], b[3], b[4], b[5], b[6], b[7], b[8], b[9]>>)), 9)

-----------------------------------------------------------------------------
(* OutPoint                                                                *)

OutPoint_new(txid, vout) == [txid |-> txid, vout |-> vout]

OutPoint_to_bytes(self) == self.txid \o u32_to_le_bytes(self.vout)

OutPoint_from_bytes(b) ==
    IF Len(b) < 36 THEN Err("InsufficientBytes")
    ELSE Ok(OutPoint_new(Slice(b, 0, 32),
                         u32_from_le_bytes(<<b[33], b[34], b[35], b[36]>>)), 36)

-----------------------------------------------------------------------------
(* Script                                                                  *)

Script_new(b) == [bytes |-> b]

Script_to_bytes(self) ==
    CompactSize_to_bytes(CompactSize_new(usize_as_u64(Len(self.bytes)))) \o self.bytes

\* mutant: the consumed count of a script one too large
Script_from_bytes_ConsumedOffByOne(b, overflow_checks) ==
    LET r == CompactSize_from_bytes(b) IN
    IF r.tag # "Ok" THEN r
    ELSE
      LET consumed == r.consumed
          script_len == r.value.value
          add == UsizeAdd(usize_as_u64(consumed), script_len)
      IN IF add.overflow /\ overflow_checks
         THEN Panic("attempt to add with overflow")
         ELSE IF U64Lt(usize_as_u64(Len(b)), add.sum)
         THEN Err("InsufficientBytes")
         ELSE IF U64Lt(add.sum, usize_as_u64(consumed))
         THEN Panic("slice index starts after its end")
         ELSE Ok(Script_new(Slice(b, consumed, UsizeSmall(add.sum))),
                 UsizeSmall(add.sum) + 1)

\* overflow_checks: whether the build panics on arithmetic overflow (debug
\* profile) or wraps (release profile).  `consumed + script_len` is evaluated
\* first in the bound test and again in the slice expression.
Script_from_bytes(b, overflow_checks) ==
    LET r == CompactSize_from_bytes(b) IN
    IF r.tag # "Ok" THEN r
    ELSE
      LET consumed == r.consumed
          script_len == r.value.value
          add == UsizeAdd(usize_as_u64(consumed), script_len)
      IN IF add.overflow /\ overflow_checks
         THEN Panic("attempt to add with overflow")
         ELSE IF U64Lt(usize_as_u64(Len(b)), add.sum)
         THEN Err("InsufficientBytes")
         ELSE IF U64Lt(add.sum, usize_as_u64(consumed))
         THEN Panic("slice index starts after its end")
         ELSE Ok(Script_new(Slice(b, consumed, UsizeSmall(add.sum))),
                 UsizeSmall(add.sum))

-----------------------------------------------------------------------------
(* TransactionInput and BitcoinTransaction: encoders                       *)

TransactionInput_new(po, ss, seq) ==
    [previous_output |-> po, script_sig |-> ss, sequence |-> seq]

TransactionInput_to_bytes(self) ==
    OutPoint_to_bytes(self.previous_output) \o
    Script_to_bytes(self.script_sig) \o
    u32_to_le_bytes(self.sequence)

BitcoinTransaction_new(v, ins, lt) == [version |-> v, inputs |-> ins, lock_time |-> lt]

RECURSIVE ExtendAll(_, _)
\* the loop `for input in &self.inputs { bytes.extend(input.to_bytes()) }`
ExtendAll(acc, ins) ==
    IF ins = <<>> THEN acc
    ELSE ExtendAll(acc \o TransactionInput_to_bytes(Head(ins)), Tail(ins))

\* mutant: the lock time written before the inputs
BitcoinTransaction_to_bytes_LockTimeFirst(self) ==
    ExtendAll(u32_to_le_bytes(self.version) \o
              CompactSize_to_bytes(CompactSize_new(usize_as_u64(Len(self.inputs)))) \o
              u32_to_le_bytes(self.lock_time),
              self.inputs)

BitcoinTransaction_to_bytes(self) ==
    ExtendAll(u32_to_le_bytes(self.version) \o
              CompactSize_to_bytes(CompactSize_new(usize_as_u64(Len(self.inputs)))),
              self.inputs)
    \o u32_to_le_bytes(self.lock_time)

-----------------------------------------------------------------------------
(* Inputs of the model                                                     *)

MaxInputs == 2      \* longest input list of a sampled transaction
MaxScriptLen == 4   \* longest short script of the samples
MaxTrail == 2       \* most bytes appended after an encoding
MaxFill == 10       \* longest constant run that pads a raw buffer

Fill(n, b) == [i \in 1..n |-> b]

LimbSamples == {0, 1, 252, 253, 65535}
U64Samples == {<<a, b, c, d>> : a \in LimbSamples, b \in {0, 1, 65535},
                                c \in {0, 1, 65535}, d \in {0, 1, 65535}}
U32Samples == {<<0, 0>>, <<1, 0>>, <<500, 0>>, <<65535, 65535>>}

TxidSamples == {Fill(32, 0), [i \in 1..32 |-> i - 1], Fill(32, 255)}

\* a script whose length needs the 3-byte VarInt form
LongScript == Fill(253, 7)

ScriptSamples ==
    {Fill(n, b) : n \in 0..MaxScriptLen, b \in {1, 255}} \cup {LongScript}

InputA == TransactionInput_new(OutPoint_new(Fill(32, 0), <<0, 0>>),
                               Script_new(<<>>), <<65535, 65535>>)
InputB == TransactionInput_new(OutPoint_new([i \in 1..32 |-> i - 1], <<1, 0>>),
                               Script_new(<<1>>), <<0, 0>>)
InputC == TransactionInput_new(OutPoint_new(Fill(32, 255), <<65535, 65535>>),
                               Script_new(Fill(MaxScriptLen, 255)), <<65535, 65535>>)
InputD == TransactionInput_new(OutPoint_new(Fill(32, 0), <<500, 0>>),
                               Script_new(LongScript), <<1, 0>>)

InputSamples == {InputA, InputB, InputC, InputD}

RECURSIVE SeqsUpTo(_, _)
\* all sequences over S of length at most n
SeqsUpTo(S, n) ==
    IF n = 0 THEN {<<>>}
    ELSE LET shorter == SeqsUpTo(S, n - 1)
         IN shorter \cup {Append(q, x) : q \in shorter, x \in S}

InputListSamples == SeqsUpTo({InputA, InputB, InputC}, MaxInputs) \cup {<<InputD>>}

TxSamples ==
    {BitcoinTransaction_new(v, ins, lt) :
        v \in {<<1, 0>>, <<2, 0>>}, ins \in InputListSamples,
        lt \in {<<0, 0>>, <<500, 0>>}}

TrailSamples == SeqsUpTo({0, 255}, MaxTrail) \ {<<>>}

\* raw buffers: a short arbitrary head followed by a constant run
RawHeads ==
    {<<>>} \cup
    {<<a>> \o t : a \in {0, 1, 252, 253, 254, 255}, t \in SeqsUpTo({0, 1, 2, 255}, 2)}
RawBuffers == {h \o Fill(n, f) : h \in RawHeads, n \in 0..MaxFill, f \in {0, 255}}

CorruptBytes == {0, 1, 2, 253, 254, 255}

Kinds == {"CompactSize", "OutPoint", "Script", "TransactionInput", "BitcoinTransaction"}

RECURSIVE SumLen(_, _)
\* total encoded length of the first n inputs
SumLen(ins, n) ==
    IF n = 0 THEN 0
    ELSE SumLen(ins, n - 1) + Len(TransactionInput_to_bytes(ins[n]))

\* offsets (0-based) of the first byte of every VarInt of an encoding
VarIntOffsets(k, e) ==
    IF k = "Script" THEN {0}
    ELSE IF k = "TransactionInput" THEN {36}
    ELSE IF k = "BitcoinTransaction"
    THEN {4} \cup
         {4 + Len(CompactSize_to_bytes(CompactSize_new(usize_as_u64(Len(e.inputs)))))
            + SumLen(e.inputs, i - 1) + 36 : i \in 1..Len(e.inputs)}
    ELSE {}

-----------------------------------------------------------------------------
(* The caller: builds a value, encodes it, may damage the buffer, decodes  *)

decoder_vars == <<cursor, version, input_count, inputs, input_sizes, slice_start,
                  in_cursor, previous_output, script_sig, in_result, result>>

Init ==
    /\ pc = "idle"
    /\ kind = "none"
    /\ entity = NoEntity
    /\ shape = "none"
    /\ bytes = <<>>
    /\ encoded_len = 0
    /\ cursor = 0
    /\ version = <<0, 0>>
    /\ input_count = <<0, 0, 0, 0>>
    /\ inputs = <<>>
    /\ input_sizes = <<>>
    /\ slice_start = 0
    /\ in_cursor = 0
    /\ previous_output = NoValue
    /\ script_sig = NoValue
    /\ in_result = NoResult
    /\ result = NoResult

Encoded(k, e, b) ==
    /\ pc' = "ready"
    /\ kind' = k
    /\ entity' = e
    /\ shape' = "exact"
    /\ bytes' = b
    /\ encoded_len' = Len(b)
    /\ UNCHANGED decoder_vars

EncodeCompactSize ==
    /\ pc = "idle"
    /\ \E v \in U64Samples :
        Encoded("CompactSize", CompactSize_new(v),
                CompactSize_to_bytes(CompactSize_new(v)))

EncodeOutPoint ==
    /\ pc = "idle"
    /\ \E t \in TxidSamples, v \in U32Samples :
        Encoded("OutPoint", OutPoint_new(t, v), OutPoint_to_bytes(OutPoint_new(t, v)))

EncodeScript ==
    /\ pc = "idle"
    /\ \E s \in ScriptSamples :
        Encoded("Script", Script_new(s), Script_to_bytes(Script_new(s)))

EncodeTransactionInput ==
    /\ pc = "idle"
    /\ \E i \in InputSamples :
        Encoded("TransactionInput", i, TransactionInput_to_bytes(i))

EncodeBitcoinTransaction ==
    /\ pc = "idle"
    /\ \E tx \in TxSamples :
        Encoded("BitcoinTransaction", tx, BitcoinTransaction_to_bytes(tx))

\* the caller hands a decoder bytes that no encoder produced
RawBuffer ==
    /\ pc = "idle"
    /\ \E k \in Kinds, b \in RawBuffers :
        /\ kind' = k
        /\ bytes' = b
    /\ pc' = "ready"
    /\ entity' = NoEntity
    /\ shape' = "raw"
    /\ encoded_len' = 0
    /\ UNCHANGED decoder_vars

\* the caller hands a decoder a strict prefix of an encoding
Truncate ==
    /\ pc = "ready" /\ shape = "exact"
    /\ \E n \in 0..(Len(bytes) - 1) : bytes' = SubSeq(bytes, 1, n)
    /\ shape' = "truncated"
    /\ UNCHANGED <<pc, kind, entity, encoded_len>>
    /\ UNCHANGED decoder_vars

\* the caller hands a decoder an encoding followed by other bytes
Extend ==
    /\ pc = "ready" /\ shape = "exact"
    /\ \E s \in TrailSamples : bytes' = bytes \o s
    /\ shape' = "extended"
    /\ UNCHANGED <<pc, kind, entity, encoded_len>>
    /\ UNCHANGED decoder_vars

\* the caller hands a decoder an encoding with the first byte of a VarInt replaced
Corrupt ==
    /\ pc = "ready" /\ shape = "exact"
    /\ \E p \in VarIntOffsets(kind, entity), b \in CorruptBytes :
        /\ bytes[p + 1] # b
        /\ bytes' = [bytes EXCEPT ![p + 1] = b]
    /\ shape' = "corrupted"
    /\ UNCHANGED <<pc, kind, entity, encoded_len>>
    /\ UNCHANGED decoder_vars

-----------------------------------------------------------------------------
(* Decoders of the leaf types: one call each                               *)

Finish(r) ==
    /\ result' = r
    /\ pc' = "done"

DecodeCompactSize ==
    /\ pc = "ready" /\ kind = "CompactSize"
    /\ Finish(CompactSize_from_bytes(bytes))
    /\ UNCHANGED <<kind, entity, shape, bytes, encoded_len, cursor, version,
                   input_count, inputs, input_sizes, slice_start, in_cursor,
                   previous_output, script_sig, in_result>>

DecodeOutPoint ==
    /\ pc = "ready" /\ kind = "OutPoint"
    /\ Finish(OutPoint_from_bytes(bytes))
    /\ UNCHANGED <<kind, entity, shape, bytes, encoded_len, cursor, version,
                   input_count, inputs, input_sizes, slice_start, in_cursor,
                   previous_output, script_sig, in_result>>

DecodeScript ==
    /\ pc = "ready" /\ kind = "Script"
    /\ \E overflow_checks \in BOOLEAN :
        Finish(Script_from_bytes(bytes, overflow_checks))
    /\ UNCHANGED <<kind, entity, shape, bytes, encoded_len, cursor, version,
                   input_count, inputs, input_sizes, slice_start, in_cursor,
                   previous_output, script_sig, in_result>>

-----------------------------------------------------------------------------
(* TransactionInput::from_bytes, statement by statement.  It runs on the   *)
(* whole buffer when called by the caller, and on bytes[cursor..] when     *)
(* called from the loop of BitcoinTransaction::from_bytes.                 *)

\* the `bytes` parameter of the running TransactionInput::from_bytes
InputSlice == SliceFrom(bytes, slice_start)

\* largest capacity whose byte size fits isize.  An element takes 64 bytes on a
\* 64-bit target (OutPoint 36, Vec<u8> 24, u32 4), so this is isize::MAX / 64,
\* that is 2^57 - 1; asking for more panics with "capacity overflow"
MaxCapacity == <<65535, 65535, 65535, 511>>

\* a request the allocator of the host may refuse: 65536 elements (4 MiB) or more
AllocMayFail(n) == U64Lt(<<65535, 0, 0, 0>>, n)

\* TransactionInput::from_bytes returns r
InputReturn(r) ==
    IF kind = "TransactionInput"
    THEN /\ Finish(r)
         /\ UNCHANGED in_result
    ELSE /\ in_result' = r
         /\ pc' = "tx_push"
         /\ UNCHANGED result

DecodeTransactionInput ==
    /\ pc = "ready" /\ kind = "TransactionInput"
    /\ slice_start' = 0
    /\ in_cursor' = 0
    /\ pc' = "in_outpoint"
    /\ UNCHANGED <<kind, entity, shape, bytes, encoded_len, cursor, version,
                   input_count, inputs, input_sizes, previous_output, script_sig,
                   in_result, result>>

\* OutPoint::from_bytes(&bytes[cursor..])?; cursor += consumed;
InputReadOutPoint ==
    /\ pc = "in_outpoint"
    /\ LET r == IF in_cursor > Len(InputSlice)
                THEN Panic("slice start index out of range")
                ELSE OutPoint_from_bytes(SliceFrom(InputSlice, in_cursor))
       IN IF r.tag = "Ok"
          THEN /\ previous_output' = r.value
               /\ in_cursor' = in_cursor + r.consumed
               /\ pc' = "in_script"
               /\ UNCHANGED <<in_result, result>>
          ELSE /\ InputReturn(r)
               /\ UNCHANGED <<previous_output, in_cursor>>
    /\ UNCHANGED <<kind, entity, shape, bytes, encoded_len, cursor, version,
                   input_count, inputs, input_sizes, slice_start, script_sig>>

\* Script::from_bytes(&bytes[cursor..])?; cursor += consumed;
InputReadScript ==
    /\ pc = "in_script"
    /\ \E overflow_checks \in BOOLEAN :
       LET r == IF in_cursor > Len(InputSlice)
                THEN Panic("slice start index out of range")
                ELSE Script_from_bytes(SliceFrom(InputSlice, in_cursor), overflow_checks)
       IN IF r.tag = "Ok"
          THEN /\ script_sig' = r.value
               /\ in_cursor' = in_cursor + r.consumed
               /\ pc' = "in_sequence"
               /\ UNCHANGED <<in_result, result>>
          ELSE /\ InputReturn(r)
               /\ UNCHANGED <<script_sig, in_cursor>>
    /\ UNCHANGED <<kind, entity, shape, bytes, encoded_len, cursor, version,
                   input_count, inputs, input_sizes, slice_start, previous_output>>

\* the length test, the four indexed reads of sequence, cursor += 4; and the return
InputReadSequence ==
    /\ pc = "in_sequence"
    /\ IF Len(InputSlice) < in_cursor + 4
       THEN /\ InputReturn(Err("InsufficientBytes"))
            /\ UNCHANGED in_cursor
       ELSE /\ in_cursor' = in_cursor + 4
            /\ InputReturn(Ok(TransactionInput_new(
                                 previous_output, script_sig,
                                 u32_from_le_bytes(<<InputSlice[in_cursor + 1],
                                                     InputSlice[in_cursor + 2],
                                                     InputSlice[in_cursor + 3],
                                                     InputSlice[in_cursor + 4]>>)),
                              in_cursor + 4))
    /\ UNCHANGED <<kind, entity, shape, bytes, encoded_len, cursor, version,
                   input_count, inputs, input_sizes, slice_start, previous_output,
                   script_sig>>

-----------------------------------------------------------------------------
(* BitcoinTransaction::from_bytes, statement by statement                  *)

DecodeBitcoinTransaction ==
    /\ pc = "ready" /\ kind = "BitcoinTransaction"
    /\ cursor' = 0
    /\ pc' = "tx_version"
    /\ UNCHANGED <<kind, entity, shape, bytes, encoded_len, version, input_count,
                   inputs, input_sizes, slice_start, in_cursor, previous_output,
                   script_sig, in_result, result>>

\* the length test, the four indexed reads of version, cursor += 4;
TxReadVersion ==
    /\ pc = "tx_version"
    /\ IF Len(bytes) < 4
       THEN /\ Finish(Err("InsufficientBytes"))
            /\ UNCHANGED <<version, cursor>>
       ELSE /\ version' = u32_from_le_bytes(<<bytes[1], bytes[2], bytes[3], bytes[4]>>)
            /\ cursor' = cursor + 4
            /\ pc' = "tx_count"
            /\ UNCHANGED result
    /\ UNCHANGED <<kind, entity, shape, bytes, encoded_len, input_count, inputs,
                   input_sizes, slice_start, in_cursor, previous_output, script_sig,
                   in_result>>

\* CompactSize::from_bytes(&bytes[cursor..])?; cursor += consumed;
TxReadCount ==
    /\ pc = "tx_count"
    /\ LET r == IF cursor > Len(bytes)
                THEN Panic("slice start index out of range")
                ELSE CompactSize_from_bytes(SliceFrom(bytes, cursor))
       IN IF r.tag = "Ok"
          THEN /\ input_count' = r.value.value
               /\ cursor' = cursor + r.consumed
               /\ pc' = "tx_alloc"
               /\ UNCHANGED result
          ELSE /\ Finish(r)
               /\ UNCHANGED <<input_count, cursor>>
    /\ UNCHANGED <<kind, entity, shape, bytes, encoded_len, version, inputs,
                   input_sizes, slice_start, in_cursor, previous_output, script_sig,
                   in_result>>

\* Vec::with_capacity(input_count.value as usize)
TxAllocInputs ==
    /\ pc = "tx_alloc"
    /\ IF U64Lt(MaxCapacity, input_count)
       THEN Finish(Panic("capacity overflow"))
       ELSE \E granted \in (IF AllocMayFail(input_count) THEN BOOLEAN ELSE {TRUE}) :
               IF granted
               THEN pc' = "tx_loop" /\ UNCHANGED result
               ELSE Finish(Abort("memory allocation failed"))
    /\ inputs' = <<>>
    /\ input_sizes' = <<>>
    /\ UNCHANGED <<kind, entity, shape, bytes, encoded_len, cursor, version,
                   input_count, slice_start, in_cursor, previous_output, script_sig,
                   in_result>>

\* for _ in 0..input_count.value: one more iteration, which starts
\* TransactionInput::from_bytes(&bytes[cursor..]), or the end of the loop
TxLoop ==
    /\ pc = "tx_loop"
    /\ IF U64Lt(usize_as_u64(Len(inputs)), input_count)
       THEN IF cursor > Len(bytes)
            THEN /\ Finish(Panic("slice start index out of range"))
                 /\ UNCHANGED <<slice_start, in_cursor>>
            ELSE /\ slice_start' = cursor
                 /\ in_cursor' = 0
                 /\ pc' = "in_outpoint"
                 /\ UNCHANGED result
       ELSE /\ pc' = "tx_lock_time"
            /\ UNCHANGED <<slice_start, in_cursor, result>>
    /\ UNCHANGED <<kind, entity, shape, bytes, encoded_len, cursor, version,
                   input_count, inputs, input_sizes, previous_output, script_sig,
                   in_result>>

\* the `?` on the input's result; inputs.push(input); cursor += consumed;
TxPushInput ==
    /\ pc = "tx_push"
    /\ IF in_result.tag = "Ok"
       THEN /\ inputs' = Append(inputs, in_result.value)
            /\ input_sizes' = Append(input_sizes, in_result.consumed)
            /\ cursor' = cursor + in_result.consumed
            /\ pc' = "tx_loop"
            /\ UNCHANGED result
       ELSE /\ Finish(in_result)
            /\ UNCHANGED <<inputs, input_sizes, cursor>>
    /\ UNCHANGED <<kind, entity, shape, bytes, encoded_len, version, input_count,
                   slice_start, in_cursor, previous_output, script_sig, in_result>>

\* mutant: the whole buffer reported as consumed
TxReadLockTime_ConsumesAll ==
    /\ pc = "tx_lock_time"
    /\ IF Len(bytes) < cursor + 4
       THEN /\ Finish(Err("InsufficientBytes"))
            /\ UNCHANGED cursor
       ELSE /\ cursor' = Len(bytes)
            /\ Finish(Ok(BitcoinTransaction_new(
                            version, inputs,
                            u32_from_le_bytes(<<bytes[cursor + 1], bytes[cursor + 2],
                                                bytes[cursor + 3], bytes[cursor + 4]>>)),
                         Len(bytes)))
    /\ UNCHANGED <<kind, entity, shape, bytes, encoded_len, version, input_count,
                   inputs, input_sizes, slice_start, in_cursor, previous_output,
                   script_sig, in_result>>

\* mutant: a missing lock time read as zero instead of refused
TxReadLockTime_ZeroPads ==
    /\ pc = "tx_lock_time"
    /\ IF Len(bytes) < cursor + 4
       THEN /\ cursor' = Len(bytes)
            /\ Finish(Ok(BitcoinTransaction_new(version, inputs, <<0, 0>>), Len(bytes)))
       ELSE /\ cursor' = cursor + 4
            /\ Finish(Ok(BitcoinTransaction_new(
                            version, inputs,
                            u32_from_le_bytes(<<bytes[cursor + 1], bytes[cursor + 2],
                                                bytes[cursor + 3], bytes[cursor + 4]>>)),
                         cursor + 4))
    /\ UNCHANGED <<kind, entity, shape, bytes, encoded_len, version, input_count,
                   inputs, input_sizes, slice_start, in_cursor, previous_output,
                   script_sig, in_result>>

\* the length test, the four indexed reads of lock_time, cursor += 4; and the return
TxReadLockTime ==
    /\ pc = "tx_lock_time"
    /\ IF Len(bytes) < cursor + 4
       THEN /\ Finish(Err("InsufficientBytes"))
            /\ UNCHANGED cursor
       ELSE /\ cursor' = cursor + 4
            /\ Finish(Ok(BitcoinTransaction_new(
                            version, inputs,
                            u32_from_le_bytes(<<bytes[cursor + 1], bytes[cursor + 2],
                                                bytes[cursor + 3], bytes[cursor + 4]>>)),
                         cursor + 4))
    /\ UNCHANGED <<kind, entity, shape, bytes, encoded_len, version, input_count,
                   inputs, input_sizes, slice_start, in_cursor, previous_output,
                   script_sig, in_result>>

\* the caller drops the buffer and the result and starts over
Reset ==
    /\ pc = "done"
    /\ pc' = "idle"
    /\ kind' = "none"
    /\ entity' = NoEntity
    /\ shape' = "none"
    /\ bytes' = <<>>
    /\ encoded_len' = 0
    /\ cursor' = 0
    /\ version' = <<0, 0>>
    /\ input_count' = <<0, 0, 0, 0>>
    /\ inputs' = <<>>
    /\ input_sizes' = <<>>
    /\ slice_start' = 0
    /\ in_cursor' = 0
    /\ previous_output' = NoValue
    /\ script_sig' = NoValue
    /\ in_result' = NoResult
    /\ result' = NoResult

Next ==
    \/ EncodeCompactSize
    \/ EncodeOutPoint
    \/ EncodeScript
    \/ EncodeTransactionInput
    \/ EncodeBitcoinTransaction
    \/ RawBuffer
    \/ Truncate
    \/ Extend
    \/ Corrupt
    \/ DecodeCompactSize
    \/ DecodeOutPoint
    \/ DecodeScript
    \/ DecodeTransactionInput
    \/ InputReadOutPoint
    \/ InputReadScript
    \/ InputReadSequence
    \/ DecodeBitcoinTransaction
    \/ TxReadVersion
    \/ TxReadCount
    \/ TxAllocInputs
    \/ TxLoop
    \/ TxPushInput
    \/ TxReadLockTime
    \/ Reset

Spec == Init /\ [][Next]_vars

TypeOK ==
    /\ pc \in {"idle", "ready", "in_outpoint", "in_script", "in_sequence", "tx_version",
               "tx_count", "tx_alloc", "tx_loop", "tx_push", "tx_lock_time", "done"}
    /\ result.tag \in {"None", "Ok", "Err", "Panic", "Abort"}
    /\ \A i \in 1..Len(bytes) : bytes[i] \in Byte
    /\ \A i \in 1..4 : input_count[i] \in Limb

-----------------------------------------------------------------------------
(* Vocabulary of the properties: the wire format as the specification      *)
(* states it, written without the operators that model the code            *)

\* byte k (0 = least significant) of a number held in 16-bit limbs
NthByte(v, k) == (v[(k \div 2) + 1] \div (IF k % 2 = 0 THEN 1 ELSE 256)) % 256

\* how many low-order bytes of a u64 hold all of its non-zero bits
SignificantBytes(v) ==
    IF \A k \in 0..7 : NthByte(v, k) = 0 THEN 0
    ELSE CHOOSE n \in 1..8 :
            /\ NthByte(v, n - 1) # 0
            /\ \A k \in n..7 : NthByte(v, k) = 0

\* the number of payload bytes that a VarInt prefix byte announces
PayloadWidth(prefix) ==
    IF prefix <= 252 THEN 0 ELSE IF prefix = 253 THEN 2 ELSE IF prefix = 254 THEN 4 ELSE 8

\* b holds, after its first byte, exactly the w low-order bytes of v, and v has no others
IsLittleEndianOf(b, v, w) ==
    /\ Len(b) = 1 + w
    /\ \A k \in 0..7 : NthByte(v, k) = (IF k < w THEN b[k + 2] ELSE 0)

Decoded == pc = "done"

\* C1: Round-trip. For every value e of each of the five types,
\* from_bytes(to_bytes(e)) succeeds and returns exactly (e, len(to_bytes(e))).
C1_RoundTrip ==
    (Decoded /\ shape = "exact") =>
        /\ result.tag = "Ok"
        /\ result.value = entity
        /\ result.consumed = Len(bytes)
        /\ result.consumed = encoded_len

\* C1 witness: a transaction with the longest sampled input list, decoded from its
\* own encoding
C1_Witness ==
    /\ Decoded /\ shape = "exact" /\ kind = "BitcoinTransaction"
    /\ Len(entity.inputs) = MaxInputs
    /\ result.tag = "Ok"
    /\ Len(result.value.inputs) = MaxInputs

\* C4: CompactSize::to_bytes always chooses the narrowest width class: v <= 252 is
\* the single byte v; 253..65535 is 0xFD and 2 little-endian bytes; 65536..2^32-1 is
\* 0xFE and 4 little-endian bytes; larger is 0xFF and 8 little-endian bytes; the
\* length is always 1, 3, 5 or 9.
C4_NarrowestWidth ==
    (pc = "ready" /\ kind = "CompactSize" /\ shape = "exact") =>
        LET v == entity.value
            n == SignificantBytes(v)
        IN /\ Len(bytes) \in {1, 3, 5, 9}
           /\ (n <= 1 /\ NthByte(v, 0) <= 252) => bytes = <<NthByte(v, 0)>>
           /\ (n <= 2 /\ ~(n <= 1 /\ NthByte(v, 0) <= 252)) =>
                  (bytes[1] = 253 /\ IsLittleEndianOf(bytes, v, 2))
           /\ (n \in {3, 4}) => (bytes[1] = 254 /\ IsLittleEndianOf(bytes, v, 4))
           /\ (n >= 5) => (bytes[1] = 255 /\ IsLittleEndianOf(bytes, v, 8))

\* C4 witness: 4294967296, the first value of the widest class, encoded in 9 bytes
C4_Witness ==
    /\ pc = "ready" /\ kind = "CompactSize" /\ shape = "exact"
    /\ entity.value = <<0, 0, 1, 0>>
    /\ bytes = <<255, 0, 0, 0, 0, 1, 0, 0, 0>>

\* C5: CompactSize::from_bytes is decided by the first byte and the buffer length:
\* empty fails with InsufficientBytes; a first byte <= 252 gives (that byte, 1);
\* 0xFD/0xFE/0xFF need 3/5/9 bytes (else InsufficientBytes) and give the
\* little-endian value of the next 2/4/8 bytes with consumed 3/5/9; canonicality is
\* never checked.
C5_FirstByteDecides ==
    (Decoded /\ kind = "CompactSize") =>
        IF Len(bytes) = 0
        THEN result = Err("InsufficientBytes")
        ELSE LET w == PayloadWidth(bytes[1]) IN
             IF Len(bytes) < 1 + w
             THEN result = Err("InsufficientBytes")
             ELSE /\ result.tag = "Ok"
                  /\ result.consumed = 1 + w
                  /\ IF w = 0
                     THEN result.value.value = <<bytes[1], 0, 0, 0>>
                     ELSE IsLittleEndianOf(SubSeq(bytes, 1, 1 + w), result.value.value, w)

\* C5 witness: the non-canonical [0xFD, 0x01, 0x00] decoded to value 1, consumed 3
C5_Witness ==
    /\ Decoded /\ kind = "CompactSize"
    /\ bytes = <<253, 1, 0>>
    /\ result = Ok(CompactSize_new(<<1, 0, 0, 0>>), 3)

\* the truncated [0xFE, 0x01, 0x02] is rejected with InsufficientBytes
C5_TruncatedExample ==
    /\ Decoded /\ kind = "CompactSize"
    /\ bytes = <<254, 1, 2>>
    /\ result = Err("InsufficientBytes")

-----------------------------------------------------------------------------
(* The layout of an encoded transaction, as the specification states it    *)

\* the four little-endian bytes of a u32
LittleEndian4(x) == <<NthByte(x, 0), NthByte(x, 1), NthByte(x, 2), NthByte(x, 3)>>

\* the canonical VarInt of a length below 65536, and its width
VarIntOf(n) == IF n <= 252 THEN <<n>> ELSE <<253, n % 256, n \div 256>>
VarIntWidth(n) == IF n <= 252 THEN 1 ELSE 3

\* 36-byte outpoint, VarInt script length, script bytes, 4-byte sequence
InputLength(inp) ==
    36 + VarIntWidth(Len(inp.script_sig.bytes)) + Len(inp.script_sig.bytes) + 4

RECURSIVE InputsLength(_, _)
InputsLength(ins, n) ==
    IF n = 0 THEN 0 ELSE InputsLength(ins, n - 1) + InputLength(ins[n])

\* the bytes of b at the 0-based offsets from..(from + n - 1)
Field(b, from, n) == SubSeq(b, from + 1, from + n)

InputLaidOutAt(b, o, inp) ==
    LET l == Len(inp.script_sig.bytes)
        w == VarIntWidth(l)
    IN /\ Field(b, o, 32) = inp.previous_output.txid
       /\ Field(b, o + 32, 4) = LittleEndian4(inp.previous_output.vout)
       /\ Field(b, o + 36, w) = VarIntOf(l)
       /\ Field(b, o + 36 + w, l) = inp.script_sig.bytes
       /\ Field(b, o + 36 + w + l, 4) = LittleEndian4(inp.sequence)

\* C8: BitcoinTransaction::to_bytes lays out the 4-byte version (LE), the canonical
\* VarInt of the number of inputs, each input in list order (36-byte outpoint, VarInt
\* script length, script bytes, 4-byte sequence LE) and the 4-byte lock time (LE); a
\* one-input transaction with an empty script takes 50 bytes, a zero-input one 9.
C8_Layout ==
    (pc = "ready" /\ kind = "BitcoinTransaction" /\ shape = "exact") =>
        LET n == Len(entity.inputs)
            w == VarIntWidth(n)
            body == InputsLength(entity.inputs, n)
        IN /\ Len(bytes) = 4 + w + body + 4
           /\ Field(bytes, 0, 4) = LittleEndian4(entity.version)
           /\ Field(bytes, 4, w) = VarIntOf(n)
           /\ \A i \in 1..n :
                 InputLaidOutAt(bytes, 4 + w + InputsLength(entity.inputs, i - 1),
                                entity.inputs[i])
           /\ Field(bytes, 4 + w + body, 4) = LittleEndian4(entity.lock_time)
           /\ (n = 1 /\ entity.inputs[1].script_sig.bytes = <<>>) => Len(bytes) = 50
           /\ (n = 0) => Len(bytes) = 9

\* C8 witness: version 1, one input with an empty script and sequence 0xFFFFFFFF,
\* lock time 0, encoded in 50 bytes
C8_Witness ==
    /\ pc = "ready" /\ kind = "BitcoinTransaction" /\ shape = "exact"
    /\ entity = BitcoinTransaction_new(<<1, 0>>, <<InputA>>, <<0, 0>>)
    /\ Len(bytes) = 50

\* version 2, no inputs, lock time 500, encoded in 9 bytes
C8_ZeroInputExample ==
    /\ pc = "ready" /\ kind = "BitcoinTransaction" /\ shape = "exact"
    /\ entity = BitcoinTransaction_new(<<2, 0>>, <<>>, <<500, 0>>)
    /\ bytes = <<2, 0, 0, 0, 0, 244, 1, 0, 0>>

\* C6: Trailing-bytes tolerance. For every transaction tx and byte sequence s (s may
\* be empty), BitcoinTransaction::from_bytes(to_bytes(tx) ++ s) succeeds and returns
\* (tx, len(to_bytes(tx))), whatever the length and content of s.
C6_TrailingBytes ==
    (Decoded /\ kind = "BitcoinTransaction" /\ shape \in {"exact", "extended"}) =>
        /\ result.tag = "Ok"
        /\ result.value = entity
        /\ result.consumed = encoded_len
        /\ Len(bytes) >= encoded_len
        /\ SubSeq(bytes, 1, encoded_len) = BitcoinTransaction_to_bytes(entity)

\* C6 witness: a transaction with inputs decoded from a buffer with the most
\* trailing bytes; consumed stops short of the buffer's end
C6_Witness ==
    /\ Decoded /\ kind = "BitcoinTransaction" /\ shape = "extended"
    /\ Len(entity.inputs) >= 1
    /\ Len(bytes) = encoded_len + MaxTrail
    /\ result.tag = "Ok"
    /\ result.consumed < Len(bytes)

\* C9: Truncation detection at every cut point. For every transaction tx and every
\* strict prefix p of to_bytes(tx), BitcoinTransaction::from_bytes(p) fails with
\* InsufficientBytes.
C9_Truncation ==
    (Decoded /\ kind = "BitcoinTransaction" /\ shape = "truncated") =>
        /\ Len(bytes) < encoded_len
        /\ result = Err("InsufficientBytes")

\* C9 witness: the cut falls inside the 3-byte script length of the long script
C9_Witness ==
    /\ Decoded /\ kind = "BitcoinTransaction" /\ shape = "truncated"
    /\ entity.inputs = <<InputD>>
    /\ Len(bytes) = 4 + 1 + 36 + 2
    /\ result = Err("InsufficientBytes")

\* the cut falls inside the lock time, after every input was decoded
C9_CutInLockTime ==
    /\ Decoded /\ kind = "BitcoinTransaction" /\ shape = "truncated"
    /\ Len(inputs) = MaxInputs
    /\ Len(bytes) = encoded_len - 1
    /\ result = Err("InsufficientBytes")

\* every place where the buffer is sliced or indexed at a cursor is inside the buffer
CursorsInBuffer ==
    /\ cursor <= Len(bytes)
    /\ slice_start <= Len(bytes)
    /\ slice_start + in_cursor <= Len(bytes)
    /\ result.error # "slice start index out of range"
    /\ in_result.error # "slice start index out of range"

\* a step of a running decoder never moves a cursor back, and a sub-decode that
\* succeeds moves it forward
CursorsAdvance ==
    (pc \notin {"idle", "ready", "done"}) =>
        /\ cursor' >= cursor
        /\ (pc \in {"in_outpoint", "in_script", "in_sequence"}) => in_cursor' >= in_cursor
        /\ (pc = "tx_version" /\ pc' = "tx_count") => cursor' > cursor
        /\ (pc = "tx_count" /\ pc' = "tx_alloc") => cursor' > cursor
        /\ (pc = "tx_push" /\ pc' = "tx_loop") => cursor' > cursor
        /\ (pc = "tx_lock_time" /\ result'.tag = "Ok") => cursor' > cursor
        /\ (pc = "in_outpoint" /\ pc' = "in_script") => in_cursor' > in_cursor
        /\ (pc = "in_script" /\ pc' = "in_sequence") => in_cursor' > in_cursor
        /\ (pc = "in_sequence" /\ (result'.tag = "Ok" \/ in_result'.tag = "Ok"))
              => in_cursor' > in_cursor

ConsumedInBuffer ==
    (Decoded /\ result.tag = "Ok") =>
        (1 <= result.consumed /\ result.consumed <= Len(bytes))

\* C10: Cursor invariant. Throughout TransactionInput::from_bytes and
\* BitcoinTransaction::from_bytes, on any buffer, the cursor only moves forward and,
\* wherever the buffer is sliced or indexed at it, cursor <= len(buffer); every
\* successful decode of the five types returns 1 <= consumed <= len(buffer).
C10_CursorInvariant ==
    /\ [](CursorsInBuffer /\ ConsumedInBuffer)
    /\ [][CursorsAdvance]_vars

\* C10 witness: a transaction decoder that is past its inputs with the cursor exactly
\* at the end of a buffer cut before the lock time
C10_Witness ==
    /\ pc = "tx_lock_time" /\ shape = "truncated"
    /\ Len(inputs) >= 1
    /\ cursor = Len(bytes)

-----------------------------------------------------------------------------
(* The decoders as the specification states them (sections 4.1 to 4.5):    *)
(* every outcome is a result or InsufficientBytes                          *)

\* the u32 and the VarInt payload stored little-endian at 0-based offset o of b
StoredU32(b, o) == <<b[o + 1] + 256 * b[o + 2], b[o + 3] + 256 * b[o + 4]>>

StoredPayload(b, o, w) ==
    LET B(k) == IF k < w THEN b[o + 1 + k] ELSE 0
    IN <<B(0) + 256 * B(1), B(2) + 256 * B(3), B(4) + 256 * B(5), B(6) + 256 * B(7)>>

\* 4.1: the VarInt at offset o
StatedVarInt(b, o) ==
    IF Len(b) <= o THEN [ok |-> FALSE, value |-> <<0, 0, 0, 0>>, width |-> 0]
    ELSE LET w == PayloadWidth(b[o + 1]) IN
         IF Len(b) < o + 1 + w THEN [ok |-> FALSE, value |-> <<0, 0, 0, 0>>, width |-> 0]
         ELSE [ok |-> TRUE,
               value |-> IF w = 0 THEN <<b[o + 1], 0, 0, 0>> ELSE StoredPayload(b, o + 1, w),
               width |-> 1 + w]

\* a u64 exceeds a small natural
Exceeds(v, n) == v[4] > 0 \/ v[3] > 0 \/ v[2] > n \div 65536
                 \/ (v[2] = n \div 65536 /\ v[1] > n % 65536)

\* 4.3: the length-prefixed blob at offset o
StatedScript(b, o) ==
    LET v == StatedVarInt(b, o) IN
    IF ~v.ok THEN Err("InsufficientBytes")
    ELSE IF Exceeds(v.value, Len(b) - o - v.width) THEN Err("InsufficientBytes")
    ELSE Ok(Script_new(Field(b, o + v.width, v.value[1])), v.width + v.value[1])

\* 4.4: the input record at offset o
StatedInput(b, o) ==
    IF Len(b) - o < 36 THEN Err("InsufficientBytes")
    ELSE LET s == StatedScript(b, o + 36) IN
         IF s.tag # "Ok" THEN s
         ELSE IF Len(b) - (o + 36 + s.consumed) < 4 THEN Err("InsufficientBytes")
         ELSE Ok(TransactionInput_new(
                     OutPoint_new(Field(b, o, 32), StoredU32(b, o + 32)),
                     s.value,
                     StoredU32(b, o + 36 + s.consumed)),
                 36 + s.consumed + 4)

RECURSIVE StatedInputs(_, _, _, _)
\* 4.5 step 3: exactly count input records from offset o on, after those in acc
StatedInputs(b, o, count, acc) ==
    IF ~Exceeds(count, Len(acc)) THEN [tag |-> "Ok", inputs |-> acc, end |-> o]
    ELSE LET r == StatedInput(b, o) IN
         IF r.tag # "Ok" THEN [tag |-> "Err", inputs |-> acc, end |-> o]
         ELSE StatedInputs(b, o + r.consumed, count, Append(acc, r.value))

\* 4.5: the transaction
StatedTransaction(b) ==
    IF Len(b) < 4 THEN Err("InsufficientBytes")
    ELSE LET c == StatedVarInt(b, 4) IN
         IF ~c.ok THEN Err("InsufficientBytes")
         ELSE LET ins == StatedInputs(b, 4 + c.width, c.value, <<>>) IN
              IF ins.tag # "Ok" THEN Err("InsufficientBytes")
              ELSE IF Len(b) - ins.end < 4 THEN Err("InsufficientBytes")
              ELSE Ok(BitcoinTransaction_new(StoredU32(b, 0), ins.inputs,
                                             StoredU32(b, ins.end)),
                      ins.end + 4)

RECURSIVE Sum(_)
Sum(q) == IF q = <<>> THEN 0 ELSE Head(q) + Sum(Tail(q))

\* C2: for every input buffer each of the five from_bytes decoders ends in exactly
\* one of two outcomes, a successful (value, consumed) or the error
\* InsufficientBytes: never InvalidFormat, a panic, an abort or a failed allocation.
C2_OnlyOkOrInsufficientBytes ==
    Decoded => (result.tag = "Ok" \/ result = Err("InsufficientBytes"))

\* what is left of C2 on the code: a decoder that returns at all returns Ok or
\* InsufficientBytes, never InvalidFormat
C2_NeverInvalidFormat ==
    (Decoded /\ result.tag \notin {"Panic", "Abort"}) =>
        (result.tag = "Ok" \/ result = Err("InsufficientBytes"))

\* C3: Script::from_bytes, for a leading VarInt of value L and width W, returns
\* InsufficientBytes whenever fewer than L bytes remain after the prefix, and
\* otherwise the next L bytes with consumed = W + L, also when W + L exceeds the
\* machine word; L = 0 yields an empty script with consumed = W.
C3_ScriptBoundCheck ==
    (Decoded /\ kind = "Script") => result = StatedScript(bytes, 0)

\* what is left of C3 on the code: the statement holds whenever W + L fits the word
C3_ScriptBoundCheckNoWrap ==
    (Decoded /\ kind = "Script" /\ result.tag # "Panic") =>
        result = StatedScript(bytes, 0)

\* C7: BitcoinTransaction::from_bytes decodes exactly count input records, input i
\* from where input i-1 ended; on success the result has count inputs in buffer
\* order and consumed = 4 + W + (sum of the inputs' consumed bytes) + 4; if an input
\* decode fails or fewer than 4 bytes remain for the lock time, the decode returns
\* that error and no transaction.
C7_ExactlyCountInputs ==
    (Decoded /\ kind = "BitcoinTransaction" /\ Len(bytes) >= 4
       /\ StatedVarInt(bytes, 4).ok) =>
        LET c == StatedVarInt(bytes, 4) IN
        /\ result = StatedTransaction(bytes)
        /\ (result.tag = "Ok") =>
              /\ ~Exceeds(c.value, Len(result.value.inputs))
              /\ ~Exceeds(usize_as_u64(Len(result.value.inputs)), c.value[1])
              /\ Len(input_sizes) = Len(result.value.inputs)
              /\ result.consumed = 4 + c.width + Sum(input_sizes) + 4

\* what is left of C7 on the code: the statement holds of every decode that returns
C7_ExactlyCountInputsIfReturns ==
    (Decoded /\ kind = "BitcoinTransaction" /\ Len(bytes) >= 4
       /\ StatedVarInt(bytes, 4).ok /\ result.tag \notin {"Panic", "Abort"}) =>
        LET c == StatedVarInt(bytes, 4) IN
        /\ result = StatedTransaction(bytes)
        /\ (result.tag = "Ok") =>
              /\ ~Exceeds(c.value, Len(result.value.inputs))
              /\ ~Exceeds(usize_as_u64(Len(result.value.inputs)), c.value[1])
              /\ Len(input_sizes) = Len(result.value.inputs)
              /\ result.consumed = 4 + c.width + Sum(input_sizes) + 4

====
